---------------------------- MODULE Spec2Model ----------------------------
(***************************************************************************)
(* ezvis (pulezviz): the import path of src/main.rs, the line parser of   *)
(* src/parser.rs and the bulk loader of src/db.rs.                         *)
(*                                                                         *)
(* Text is a sequence of one-character strings, so that the regular        *)
(* expression, trim and the numeric conversions are computed character by  *)
(* character.  Option<T> is a sequence: None is << >>, Some(x) is <<x>>.   *)
(***************************************************************************)
EXTENDS Integers, Sequences, FiniteSets, TLC

\* ------------------------------------------------------------------ text

None == << >>

Some(x) == <<x>>

\* The characters with the Unicode White_Space property that the inputs use.
\* Regex \s and str::trim agree on this set.
WhiteSpace == {" ", "\t"}

AsciiDigits == {"0", "1", "2", "3", "4", "5", "6", "7", "8", "9"}

\* "u0663" stands for the single character ARABIC-INDIC DIGIT THREE: a
\* decimal digit for the regex class \d, not an ASCII digit for str::parse.
UnicodeDigits == AsciiDigits \cup {"u0663"}

UpperLetters ==
  <<"A", "B", "C", "D", "E", "F", "G", "H", "I", "J", "K", "L", "M",
    "N", "O", "P", "Q", "R", "S", "T", "U", "V", "W", "X", "Y", "Z">>

LowerLetters ==
  <<"a", "b", "c", "d", "e", "f", "g", "h", "i", "j", "k", "l", "m",
    "n", "o", "p", "q", "r", "s", "t", "u", "v", "w", "x", "y", "z">>

Range(s) == {s[i] : i \in DOMAIN s}

IsAlpha(c) == c \in Range(UpperLetters) \cup Range(LowerLetters)

LowerChar(c) ==
  IF c \in Range(UpperLetters)
  THEN LowerLetters[CHOOSE i \in DOMAIN UpperLetters : UpperLetters[i] = c]
  ELSE c

ToLower(s) == [i \in DOMAIN s |-> LowerChar(s[i])]

DigitVal(c) == CHOOSE n \in 0..9 : <<"0", "1", "2", "3", "4", "5", "6", "7", "8", "9">>[n + 1] = c

DigitChar(n) == <<"0", "1", "2", "3", "4", "5", "6", "7", "8", "9">>[n + 1]

AllIn(s, set) == \A i \in DOMAIN s : s[i] \in set

\* Position of the first character of s at or after `from` that is in `set`;
\* Len(s) + 1 when there is none.
RECURSIVE FindFirst(_, _, _)
FindFirst(s, from, set) ==
  IF from > Len(s) THEN Len(s) + 1
  ELSE IF s[from] \in set THEN from
  ELSE FindFirst(s, from + 1, set)

HasPrefix(s, p) == Len(s) >= Len(p) /\ SubSeq(s, 1, Len(p)) = p

\* str::trim: drop leading and trailing White_Space.
RECURSIVE TrimStart(_)
TrimStart(s) ==
  IF s # << >> /\ Head(s) \in WhiteSpace THEN TrimStart(Tail(s)) ELSE s

RECURSIVE TrimEnd(_)
TrimEnd(s) ==
  IF s # << >> /\ s[Len(s)] \in WhiteSpace
  THEN TrimEnd(SubSeq(s, 1, Len(s) - 1))
  ELSE s

Trim(s) == TrimEnd(TrimStart(s))

\* Value of a string of ASCII digits (callers keep it short).
RECURSIVE DecValue(_)
DecValue(s) ==
  IF s = << >> THEN 0
  ELSE 10 * DecValue(SubSeq(s, 1, Len(s) - 1)) + DigitVal(s[Len(s)])

\* ------------------------------------------------------- parser.rs: regex

\* The pattern of parse_line, one entry per atom: the character class, the
\* repetition bounds (max = -1: unbounded) and the capture group (0: none).
\*   ^(\S+)\s+(\S+)\s+(\S+)\s+\[([^\]]+)\]\s+"(\S+)\s+(\S+)\s+([^"]+)"\s+
\*    (\d{3})\s+(\S+)\s+"([^"]*)"\s+"([^"]*)"\s*$
RE ==
  << [cls |-> "S",     min |-> 1, max |-> -1, grp |-> 1],
     [cls |-> "s",     min |-> 1, max |-> -1, grp |-> 0],
     [cls |-> "S",     min |-> 1, max |-> -1, grp |-> 2],
     [cls |-> "s",     min |-> 1, max |-> -1, grp |-> 0],
     [cls |-> "S",     min |-> 1, max |-> -1, grp |-> 3],
     [cls |-> "s",     min |-> 1, max |-> -1, grp |-> 0],
     [cls |-> "[",     min |-> 1, max |-> 1,  grp |-> 0],
     [cls |-> "notRB", min |-> 1, max |-> -1, grp |-> 4],
     [cls |-> "]",     min |-> 1, max |-> 1,  grp |-> 0],
     [cls |-> "s",     min |-> 1, max |-> -1, grp |-> 0],
     [cls |-> "q",     min |-> 1, max |-> 1,  grp |-> 0],
     [cls |-> "S",     min |-> 1, max |-> -1, grp |-> 5],
     [cls |-> "s",     min |-> 1, max |-> -1, grp |-> 0],
     [cls |-> "S",     min |-> 1, max |-> -1, grp |-> 6],
     [cls |-> "s",     min |-> 1, max |-> -1, grp |-> 0],
     [cls |-> "notQ",  min |-> 1, max |-> -1, grp |-> 7],
     [cls |-> "q",     min |-> 1, max |-> 1,  grp |-> 0],
     [cls |-> "s",     min |-> 1, max |-> -1, grp |-> 0],
     [cls |-> "d",     min |-> 3, max |-> 3,  grp |-> 8],
     [cls |-> "s",     min |-> 1, max |-> -1, grp |-> 0],
     [cls |-> "S",     min |-> 1, max |-> -1, grp |-> 9],
     [cls |-> "s",     min |-> 1, max |-> -1, grp |-> 0],
     [cls |-> "q",     min |-> 1, max |-> 1,  grp |-> 0],
     [cls |-> "notQ",  min |-> 0, max |-> -1, grp |-> 10],
     [cls |-> "q",     min |-> 1, max |-> 1,  grp |-> 0],
     [cls |-> "s",     min |-> 1, max |-> -1, grp |-> 0],
     [cls |-> "q",     min |-> 1, max |-> 1,  grp |-> 0],
     [cls |-> "notQ",  min |-> 0, max |-> -1, grp |-> 11],
     [cls |-> "q",     min |-> 1, max |-> 1,  grp |-> 0],
     [cls |-> "s",     min |-> 0, max |-> -1, grp |-> 0] >>

InClass(c, cls) ==
  CASE cls = "S"     -> c \notin WhiteSpace
    [] cls = "s"     -> c \in WhiteSpace
    [] cls = "d"     -> c \in UnicodeDigits
    [] cls = "notRB" -> c # "]"
    [] cls = "notQ"  -> c # "\""
    [] cls = "q"     -> c = "\""
    [] OTHER         -> c = cls

\* The longest run of characters of class cls at pos, at most max of them.
RECURSIVE RunLen(_, _, _, _)
RunLen(s, pos, cls, max) ==
  IF max = 0 \/ pos > Len(s) \/ ~InClass(s[pos], cls) THEN 0
  ELSE 1 + RunLen(s, pos + 1, cls, max - 1)

NoMatch == [m |-> FALSE, caps |-> << >>]

\* Leftmost-first matching of the atoms k.. of the compiled pattern re at
\* pos, anchored at the end of s: each repetition is greedy and gives
\* characters back one at a time.  The result carries the texts of the
\* capture groups, in group order.
RECURSIVE MatchFrom(_, _, _, _)
RECURSIVE TryLen(_, _, _, _, _)
MatchFrom(re, s, k, pos) ==
  IF k > Len(re)
  THEN IF pos = Len(s) + 1 THEN [m |-> TRUE, caps |-> << >>] ELSE NoMatch
  ELSE TryLen(re, s, k, pos, RunLen(s, pos, re[k].cls, re[k].max))

TryLen(re, s, k, pos, n) ==
  IF n < re[k].min THEN NoMatch
  ELSE LET r == MatchFrom(re, s, k + 1, pos + n)
       IN  IF r.m
           THEN IF re[k].grp = 0 THEN r
                ELSE [m |-> TRUE,
                      caps |-> <<SubSeq(s, pos, pos + n - 1)>> \o r.caps]
           ELSE TryLen(re, s, k, pos, n - 1)

\* re.captures(line)
Captures(re, line) == MatchFrom(re, line, 1, 1)


\* ---------------------------------------------------- parser.rs: parse_ts

MonthNames ==
  << <<"j", "a", "n">>, <<"f", "e", "b">>, <<"m", "a", "r">>,
     <<"a", "p", "r">>, <<"m", "a", "y">>, <<"j", "u", "n">>,
     <<"j", "u", "l">>, <<"a", "u", "g">>, <<"s", "e", "p">>,
     <<"o", "c", "t">>, <<"n", "o", "v">>, <<"d", "e", "c">> >>

IsLeap(y) == (y % 4 = 0 /\ y % 100 # 0) \/ y % 400 = 0

DaysIn(y, m) ==
  IF m = 2 THEN (IF IsLeap(y) THEN 29 ELSE 28)
  ELSE IF m \in {4, 6, 9, 11} THEN 30 ELSE 31

TsErr == [ok |-> FALSE]

\* DateTime::parse_from_str(ts, "%d/%b/%Y:%H:%M:%S %z") on the zero-padded
\* layout dd/Mon/yyyy:HH:MM:SS +hhmm: the digits become numbers, the month
\* abbreviation (any case) its number, and the fields are range-checked.
ParseFromStr(t) ==
  IF Len(t) # 26 THEN TsErr
  ELSE
    LET dd  == SubSeq(t, 1, 2)
        mon == ToLower(SubSeq(t, 4, 6))
        yy  == SubSeq(t, 8, 11)
        hh  == SubSeq(t, 13, 14)
        mi  == SubSeq(t, 16, 17)
        ss  == SubSeq(t, 19, 20)
        oh  == SubSeq(t, 23, 24)
        om  == SubSeq(t, 25, 26)
        shape ==
          /\ t[3] = "/" /\ t[7] = "/"
          /\ t[12] = ":" /\ t[15] = ":" /\ t[18] = ":"
          /\ t[21] = " " /\ t[22] \in {"+", "-"}
          /\ AllIn(dd \o yy \o hh \o mi \o ss \o oh \o om, AsciiDigits)
          /\ \E m \in DOMAIN MonthNames : MonthNames[m] = mon
    IN  IF ~shape THEN TsErr
        ELSE
          LET month == CHOOSE m \in DOMAIN MonthNames : MonthNames[m] = mon
              year  == DecValue(yy)
              day   == DecValue(dd)
          IN  IF /\ day >= 1 /\ day <= DaysIn(year, month)
                 /\ DecValue(hh) <= 23 /\ DecValue(mi) <= 59
                 /\ DecValue(ss) <= 60
                 /\ DecValue(oh) <= 23 /\ DecValue(om) <= 59
              THEN [ok |-> TRUE,
                    ts |-> [year |-> year, month |-> month, day |-> day,
                            hour |-> DecValue(hh), minute |-> DecValue(mi),
                            second |-> DecValue(ss),
                            offNeg |-> (t[22] = "-"
                                         /\ DecValue(oh) + DecValue(om) > 0),
                            offH |-> DecValue(oh), offM |-> DecValue(om)]]
              ELSE TsErr

\* Mutant: a timestamp that does not parse is replaced by the epoch
\* (parse_from_str(..).unwrap_or_default()).
parse_ts_or_epoch(ts) ==
  IF ParseFromStr(ts).ok THEN ParseFromStr(ts)
  ELSE [ok |-> TRUE,
        ts |-> [year |-> 1970, month |-> 1, day |-> 1, hour |-> 0,
                minute |-> 0, second |-> 0, offNeg |-> FALSE,
                offH |-> 0, offM |-> 0]]

parse_ts(ts) == ParseFromStr(ts)

Pad2(n) == <<DigitChar(n \div 10), DigitChar(n % 10)>>

Pad4(n) == Pad2(n \div 100) \o Pad2(n % 100)

\* DateTime::to_rfc3339: yyyy-mm-ddTHH:MM:SS+hh:mm
to_rfc3339(ts) ==
  Pad4(ts.year) \o <<"-">> \o Pad2(ts.month) \o <<"-">> \o Pad2(ts.day)
    \o <<"T">> \o Pad2(ts.hour) \o <<":">> \o Pad2(ts.minute) \o <<":">>
    \o Pad2(ts.second) \o <<(IF ts.offNeg THEN "-" ELSE "+")>>
    \o Pad2(ts.offH) \o <<":">> \o Pad2(ts.offM)

\* ------------------------------------------------ parser.rs: str::parse

RECURSIVE StripZeros(_)
StripZeros(s) ==
  IF Len(s) > 1 /\ Head(s) = "0" THEN StripZeros(Tail(s)) ELSE s

\* a <= b for two digit strings without leading zeros.
RECURSIVE DigitsLeq(_, _)
DigitsLeq(a, b) ==
  IF Len(a) # Len(b) THEN Len(a) < Len(b)
  ELSE IF a = << >> THEN TRUE
  ELSE IF Head(a) # Head(b) THEN DigitVal(Head(a)) < DigitVal(Head(b))
  ELSE DigitsLeq(Tail(a), Tail(b))

I64MaxDigits ==
  <<"9", "2", "2", "3", "3", "7", "2", "0", "3", "6",
    "8", "5", "4", "7", "7", "5", "8", "0", "7">>

I64MinDigits ==
  <<"9", "2", "2", "3", "3", "7", "2", "0", "3", "6",
    "8", "5", "4", "7", "7", "5", "8", "0", "8">>

I32MaxDigits == <<"2", "1", "4", "7", "4", "8", "3", "6", "4", "7">>

I32MinDigits == <<"2", "1", "4", "7", "4", "8", "3", "6", "4", "8">>

IntErr == [ok |-> FALSE]

\* <iN as FromStr>::from_str: an optional sign, then one or more ASCII
\* digits, the value within the type's range.  The value is kept as a sign
\* and its digits without leading zeros (an i64 does not fit the checker's
\* integers).
ParseInt(x, maxDigits, minDigits) ==
  LET signed == x # << >> /\ Head(x) \in {"+", "-"}
      neg    == x # << >> /\ Head(x) = "-"
      digits == IF signed THEN Tail(x) ELSE x
      mag    == StripZeros(digits)
  IN  IF digits = << >> \/ ~AllIn(digits, AsciiDigits) THEN IntErr
      ELSE IF ~DigitsLeq(mag, IF neg THEN minDigits ELSE maxDigits) THEN IntErr
      ELSE [ok |-> TRUE, neg |-> (neg /\ mag # <<"0">>), mag |-> mag]

\* Mutant: a status that does not parse is taken for 0
\* (caps[8].parse().unwrap_or(0)).
ParseStatusOrZero(x) == [ok |-> TRUE, v |-> 0]

\* caps[8].parse::<i32>()
ParseStatus(x) ==
  LET r == ParseInt(x, I32MaxDigits, I32MinDigits)
  IN  IF r.ok
      THEN [ok |-> TRUE, v |-> IF r.neg THEN -DecValue(r.mag) ELSE DecValue(r.mag)]
      ELSE IntErr

\* Mutant: bytes that do not parse are taken for absent (x.parse().ok()).
ParseBytesOrNone(x) ==
  LET r == ParseInt(x, I64MaxDigits, I64MinDigits)
  IN  IF x # <<"-">> /\ r.ok
      THEN [ok |-> TRUE, v |-> Some([neg |-> r.neg, mag |-> r.mag])]
      ELSE [ok |-> TRUE, v |-> None]

\* match &caps[9] { "-" => None, x => Some(x.parse::<i64>()?) }
ParseBytes(x) ==
  IF x = <<"-">> THEN [ok |-> TRUE, v |-> None]
  ELSE LET r == ParseInt(x, I64MaxDigits, I64MinDigits)
       IN  IF r.ok THEN [ok |-> TRUE, v |-> Some([neg |-> r.neg, mag |-> r.mag])]
           ELSE IntErr

\* ------------------------------------------------- parser.rs: Url::parse

SchemeChars ==
  Range(UpperLetters) \cup Range(LowerLetters) \cup AsciiDigits \cup {"+", "-", "."}

\* The special schemes and their default ports.
DefaultPort(scheme) ==
  CASE scheme = <<"h", "t", "t", "p">>      -> Some(80)
    [] scheme = <<"h", "t", "t", "p", "s">> -> Some(443)
    [] scheme = <<"w", "s">>                -> Some(80)
    [] scheme = <<"w", "s", "s">>           -> Some(443)
    [] scheme = <<"f", "t", "p">>           -> Some(21)
    [] OTHER                                -> None

UrlErr == [ok |-> FALSE]

\* Position of the last ":" of s, 0 when there is none.
RECURSIVE LastColon(_, _)
LastColon(s, i) ==
  IF i = 0 THEN 0 ELSE IF s[i] = ":" THEN i ELSE LastColon(s, i - 1)

\* Mutant: the port is read with port_or_known_default(), and a target
\* that does not parse is kept as a path.
UrlParseWithDefaults(u) ==
  LET colon  == FindFirst(u, 1, {":"})
      scheme == ToLower(SubSeq(u, 1, colon - 1))
  IN  IF colon > Len(u) \/ DefaultPort(scheme) = None
      THEN [ok |-> TRUE, scheme |-> << >>, host |-> None, port |-> None,
            path |-> u, query |-> None]
      ELSE [ok |-> TRUE, scheme |-> scheme, host |-> None,
            port |-> DefaultPort(scheme), path |-> <<"/">>, query |-> None]

\* Url::parse without a base, for request targets without credentials,
\* dot segments, IPv6 literals or characters that need percent-encoding:
\* a target without a scheme is an error (RelativeUrlWithoutBase); the
\* scheme and a special scheme's host are lower-cased; a special scheme
\* needs a host, gets "/" for an empty path and hides its default port.
UrlParse(u) ==
  LET colon == FindFirst(u, 1, {":"})
  IN
  IF \/ colon > Len(u) \/ colon = 1 \/ ~IsAlpha(u[1])
     \/ ~AllIn(SubSeq(u, 1, colon - 1), SchemeChars)
  THEN UrlErr
  ELSE
    LET scheme  == ToLower(SubSeq(u, 1, colon - 1))
        special == DefaultPort(scheme) # None
        hash    == FindFirst(u, colon + 1, {"#"})
        nofrag  == SubSeq(u, colon + 1, hash - 1)
        qm      == FindFirst(nofrag, 1, {"?"})
        query   == IF qm > Len(nofrag) THEN None
                   ELSE Some(SubSeq(nofrag, qm + 1, Len(nofrag)))
        before  == SubSeq(nofrag, 1, qm - 1)
        slashes == IF special THEN {"/", "\\"} ELSE {"/"}
        hasAuth == IF special THEN TRUE ELSE HasPrefix(before, <<"/", "/">>)
        start   == IF special
                   THEN FindFirst(before, 1, Range(before) \ slashes)
                   ELSE 3
        stop    == FindFirst(before, start, slashes)
        auth    == SubSeq(before, start, stop - 1)
        rawPath == SubSeq(before, stop, Len(before))
        colonAt == LastColon(auth, Len(auth))
        hostTxt == IF colonAt = 0 THEN auth ELSE SubSeq(auth, 1, colonAt - 1)
        portTxt == IF colonAt = 0 THEN << >> ELSE SubSeq(auth, colonAt + 1, Len(auth))
        portNum == StripZeros(portTxt)
    IN
    IF ~hasAuth
    THEN [ok |-> TRUE, scheme |-> scheme, host |-> None, port |-> None,
          path |-> before, query |-> query]
    ELSE IF special /\ hostTxt = << >> THEN UrlErr
    ELSE IF \/ ~AllIn(portTxt, AsciiDigits)
            \/ Len(portNum) > 5
            \/ (portTxt # << >> /\ DecValue(portNum) > 65535)
    THEN UrlErr
    ELSE [ok |-> TRUE,
          scheme |-> scheme,
          host |-> IF hostTxt = << >> THEN None
                   ELSE Some(IF special THEN ToLower(hostTxt) ELSE hostTxt),
          port |-> IF portTxt = << >> \/ Some(DecValue(portNum)) = DefaultPort(scheme)
                   THEN None ELSE Some(DecValue(portNum)),
          path |-> IF special /\ rawPath = << >> THEN <<"/">> ELSE rawPath,
          query |-> query]

\* ------------------------------------------------- parser.rs: parse_line

none_if_dash(s) ==
  LET t == Trim(s) IN IF t = <<"-">> THEN None ELSE Some(t)

\* Mutant: a "-" country is taken for the placeholder, as for identd.
CountryOfDash(cap) ==
  LET c == Trim(cap) IN IF c = << >> \/ c = <<"-">> THEN None ELSE Some(c)

\* let c = caps[10].trim(); if c.is_empty() { None } else { Some(c) }
CountryOf(cap) ==
  LET c == Trim(cap) IN IF c = << >> THEN None ELSE Some(c)

\* let ua = caps[11].trim(); if ua.is_empty() { None } else { Some(ua) }
UserAgentOf(cap) ==
  LET ua == Trim(cap) IN IF ua = << >> THEN None ELSE Some(ua)

\* Mutant: raw keeps the trimmed line.
RawOfTrimmed(line) == Trim(line)

\* raw: line.to_string()
RawOf(line) == line

ParseErr(why) == [ok |-> FALSE, err |-> why]

\* parse_line from re.captures(line) on, re being the pattern get_or_init
\* returned.
parse_with(re, line) ==
  LET m == Captures(re, line) IN
  IF ~m.m THEN ParseErr("line did not match expected format")
  ELSE
    LET caps   == m.caps
        ts     == parse_ts(caps[4])
        status == ParseStatus(caps[8])
        bytes  == ParseBytes(caps[9])
        url    == UrlParse(caps[6])
    IN
    IF ~ts.ok THEN ParseErr("timestamp")
    ELSE IF ~status.ok THEN ParseErr("status")
    ELSE IF ~bytes.ok THEN ParseErr("bytes")
    ELSE
      [ok  |-> TRUE,
       row |-> [remote_addr     |-> caps[1],
                identd          |-> none_if_dash(caps[2]),
                user_or_session |-> none_if_dash(caps[3]),
                ts              |-> ts.ts,
                method          |-> caps[5],
                url             |-> caps[6],
                scheme          |-> IF url.ok THEN Some(url.scheme) ELSE None,
                host            |-> IF url.ok THEN url.host ELSE None,
                port            |-> IF url.ok THEN url.port ELSE None,
                path            |-> IF url.ok THEN Some(url.path) ELSE None,
                query           |-> IF url.ok THEN url.query ELSE None,
                http_version    |-> caps[7],
                status          |-> status.v,
                bytes           |-> bytes.v,
                country         |-> CountryOf(caps[10]),
                user_agent      |-> UserAgentOf(caps[11]),
                raw             |-> RawOf(line)]]

\* parse_line called on its own: get_or_init returns the pattern that
\* Regex::new compiles.
parse_line(line) == parse_with(RE, line)

\* ---------------------------------------------------------------- inputs

\* Longest input file, in lines.
MaxLines == 3

\* Longest run of white space after the closing quote of a generated line.
MaxPad == 1

TsGood ==
  <<"1", "5", "/", "F", "e", "b", "/", "2", "0", "2", "6", ":", "0", "0",
    ":", "0", "0", ":", "0", "4", " ", "+", "0", "0", "0", "0">>

\* 30 February: the layout is right, the date does not exist.
TsBad ==
  <<"3", "0", "/", "F", "e", "b", "/", "2", "0", "2", "6", ":", "0", "0",
    ":", "0", "0", ":", "0", "4", " ", "+", "0", "0", "0", "0">>

UrlAbs ==
  <<"h", "t", "t", "p", ":", "/", "/", "e", ".", "c", ":", "8", "1", "/",
    "a", "?", "x", "=", "1">>

UrlRel == <<"/", "a">>

\* A log line as its writer lays it out: the eleven fields, the separator
\* between them, whether the user-agent quote is closed, and the padding
\* after it.
Render(f) ==
  f.addr \o f.sep \o f.identd \o f.sep \o f.user \o f.sep
    \o <<"[">> \o f.ts \o <<"]">> \o f.sep
    \o <<"\"">> \o f.method \o <<" ">> \o f.url \o <<" ">> \o f.version
    \o <<"\"">> \o f.sep
    \o f.status \o f.sep \o f.bytes \o f.sep
    \o <<"\"">> \o f.country \o <<"\"">> \o f.sep
    \o <<"\"">> \o f.ua \o (IF f.closed THEN <<"\"">> ELSE << >>) \o f.tail

\* White-space strings of at most n characters.
RECURSIVE Pads(_)
Pads(n) ==
  IF n = 0 THEN {<< >>}
  ELSE Pads(n - 1) \cup {Append(p, c) : p \in Pads(n - 1), c \in WhiteSpace}

\* The lines the parser is exercised on.
GenFields ==
  [addr    : {<<"a">>},
   sep     : {<<" ">>, <<"\t", " ">>},
   identd  : {<<"-">>, <<"x">>, <<"-", "-">>},
   user    : {<<"-">>, <<"j">>},
   ts      : {TsGood, TsBad},
   method  : {<<"G">>},
   url     : {UrlRel},
   version : {<<"H">>},
   status  : {<<"2", "0", "0">>},
   bytes   : {<<"-">>, <<"x">>},
   country : {<< >>, <<"-">>, <<" ">>, <<" ", "U", "\t">>, <<" ", "-", " ">>},
   ua      : {<< >>, <<"-">>, <<"M">>, <<" ", "M", " ", "x", " ">>},
   closed  : BOOLEAN,
   tail    : Pads(MaxPad)]

\* http://e.c/a
UrlNoPort == <<"h", "t", "t", "p", ":", "/", "/", "e", ".", "c", "/", "a">>

\* http://e.c:80/a: the port written out is the scheme's default.
UrlDefaultPort == <<"h", "t", "t", "p", ":", "/", "/", "e", ".", "c", ":", "8", "0", "/", "a">>

\* http://: a special scheme without a host.
UrlNoHost == <<"h", "t", "t", "p", ":", "/", "/">>

\* http://e.c:99999/: the port does not fit 16 bits.
UrlBadPort == <<"h", "t", "t", "p", ":", "/", "/", "e", ".", "c", ":", "9", "9", "9", "9", "9", "/">>

\* x:y: a scheme and an opaque path, no authority.
UrlOpaque == <<"x", ":", "y">>

\* //e.c:81/a: host and port, but no scheme.
UrlSchemeRel == <<"/", "/", "e", ".", "c", ":", "8", "1", "/", "a">>

\* The status fields the parser is probed with: three ASCII digits, too
\* few, too many, a letter, three Arabic-Indic digits, signed.
ProbeStatus ==
  {<<"2", "0", "0">>,
   <<"0", "9", "9">>,
   <<"2", "0">>,
   <<"2", "0", "0", "0">>,
   <<"2", "x", "0">>,
   <<"u0663", "u0663", "u0663">>,
   <<"+", "2", "0">>,
   <<"-", "2", "0">>}

\* The bytes fields the parser is probed with: the placeholder, digits
\* (with leading zeros, the largest i64, one more), signed digits (the
\* smallest i64, one less), and text that is no number.
ProbeBytes ==
  {<<"-">>,
   <<"0">>,
   <<"5">>,
   <<"0", "0", "7">>,
   <<"9", "2", "2", "3", "3", "7", "2", "0", "3", "6", "8", "5", "4", "7", "7", "5", "8", "0", "7">>,
   <<"9", "2", "2", "3", "3", "7", "2", "0", "3", "6", "8", "5", "4", "7", "7", "5", "8", "0", "8">>,
   <<"+", "5">>,
   <<"-", "5">>,
   <<"-", "0">>,
   <<"-", "9", "2", "2", "3", "3", "7", "2", "0", "3", "6", "8", "5", "4", "7", "7", "5", "8", "0", "8">>,
   <<"-", "9", "2", "2", "3", "3", "7", "2", "0", "3", "6", "8", "5", "4", "7", "7", "5", "8", "0", "9">>,
   <<"x">>,
   <<"5", "x">>,
   <<"-", "-">>,
   <<"+">>,
   <<"u0663">>}

ProbeUrls ==
  {UrlAbs, UrlRel, UrlNoPort, UrlDefaultPort, UrlNoHost, UrlBadPort,
   UrlOpaque, UrlSchemeRel}

\* The lines the status, bytes and url fields are probed on: the other
\* fields are those of a well-formed line.
ProbeFields ==
  [addr    : {<<"a">>},
   sep     : {<<" ">>},
   identd  : {<<"-">>},
   user    : {<<"j">>},
   ts      : {TsGood},
   method  : {<<"G">>},
   url     : ProbeUrls,
   version : {<<"H">>},
   status  : ProbeStatus,
   bytes   : ProbeBytes,
   country : {<<"U">>},
   ua      : {<<"M">>},
   closed  : {TRUE},
   tail    : {<< >>}]

Fields(identd, url, bytes, country, ua, closed, ts) ==
  [addr |-> <<"a">>, sep |-> <<" ">>, identd |-> identd, user |-> <<"j">>,
   ts |-> ts, method |-> <<"G">>, url |-> url, version |-> <<"H">>,
   status |-> <<"2", "0", "0">>, bytes |-> bytes, country |-> country,
   ua |-> ua, closed |-> closed, tail |-> << >>]

\* a - j [15/Feb/2026:00:00:04 +0000] "G /a H" 200 5 "U" "M"
LineGood == Render(Fields(<<"-">>, UrlRel, <<"5">>, <<"U">>, <<"M">>, TRUE, TsGood))

\* a x j [15/Feb/2026:00:00:04 +0000] "G http://e.c:81/a?x=1 H" 200 - "" "-"
LineOther == Render(Fields(<<"x">>, UrlAbs, <<"-">>, << >>, <<"-">>, TRUE, TsGood))

\* The closing quote of the user agent is missing.
LineOpenQuote == Render(Fields(<<"-">>, UrlRel, <<"5">>, <<"U">>, <<"M">>, FALSE, TsGood))

\* 30 February as the timestamp of an otherwise well-formed line.
LineBadTs == Render(Fields(<<"-">>, UrlRel, <<"5">>, <<"U">>, <<"M">>, TRUE, TsBad))

\* Ten groups: the line ends after the country, the user agent is missing.
LineShort == SubSeq(LineGood, 1, Len(LineGood) - 4)

\* What BufRead::lines yields for one line of the file: Ok(text), or Err
\* (the line is not valid UTF-8).
ReadOk(text) == [ok |-> TRUE, text |-> text]

ReadErr == [ok |-> FALSE, text |-> << >>]

FileEntries == {ReadOk(LineGood), ReadOk(LineOther), ReadOk(LineOpenQuote), ReadErr}

\* The files of at most MaxLines lines.
Files == UNION {[1..n -> FileEntries] : n \in 0..MaxLines}

\* Longest file of the runs over lines parse_line refuses.
MaxRejectLines == 2

\* Files of a well-formed line and of the lines parse_line refuses.
RejectFiles ==
  UNION {[1..n -> {ReadOk(LineGood), ReadOk(LineShort), ReadOk(LineOpenQuote),
                   ReadOk(LineBadTs)}] : n \in 0..MaxRejectLines}

\* ----------------------------------------------------------------- state

VARIABLES
  pc,        \* where `ezvis import` is: Idle, DbOpen, SchemaReady, Collecting,
             \* Appending, Flushed, Done, Failed (main returned Err); Parser
             \* when parse_line is called on its own
  file,      \* the log file: what lines() yields, line by line
  nextLine,  \* 1-based number of the next line lines() yields
  line,      \* the closure's `line`: Some(text) once a line was read
  result,    \* Some(parse_line(line)) once it was called
  reInit,    \* the OnceLock RE holds its compiled pattern
  rows_vec,  \* insert_rows' rows_vec; each row tagged with its line number
  idx,       \* rows of rows_vec the append loop has been through
  ok,        \* insert_rows' ok
  bad,       \* insert_rows' bad
  schema,    \* the tables and indexes the database defines
  requests,  \* the rows of table requests (durable)
  buffer,    \* the rows the appender holds, not yet flushed
  calls,     \* every call to the database and to the input, in order
  out,       \* what was printed (stdout and stderr), in order
  src,       \* parser runs: the fields the line was laid out from
  once,      \* threaded runs: the OnceLock RE, its state and its content
  thr,       \* threaded runs: where each thread is in parse_line
  log        \* threaded runs: the calls of parse_line that returned

vars ==
  <<pc, file, nextLine, line, result, reInit, rows_vec, idx, ok, bad,
    schema, requests, buffer, calls, out, src, once, thr, log>>

\* OnceLock::new()
OnceNew == [state |-> "empty", value |-> None]

\* A run on the main thread alone.
NoThreads == once = OnceNew /\ thr = << >> /\ log = << >>

\* db.rs, init_schema: the statements of the batch, in order.
SchemaStmts ==
  <<"requests", "idx_requests_ts", "idx_requests_host",
    "idx_requests_status", "idx_requests_country">>

\* The names the first k statements define.
Defined(k) == {SchemaStmts[i] : i \in 1..k}

\* The parameters of append_row for row r (read from line lineNo): the
\* timestamp as RFC 3339 text, the other columns as parsed.
SinkRow(lineNo, r) ==
  [lineNo |-> lineNo, ts |-> to_rfc3339(r.ts), remote_addr |-> r.remote_addr,
   identd |-> r.identd, user_or_session |-> r.user_or_session,
   method |-> r.method, url |-> r.url, scheme |-> r.scheme, host |-> r.host,
   port |-> r.port, path |-> r.path, query |-> r.query,
   http_version |-> r.http_version, status |-> r.status, bytes |-> r.bytes,
   country |-> r.country, user_agent |-> r.user_agent, raw |-> r.raw]

\* A row an earlier import left in the table (line number 0: not of this run).
PriorRow == SinkRow(0, parse_line(LineOther).row)

Call(op, lineNo, success) == [op |-> op, line |-> lineNo, ok |-> success]

Diag(kind, n, total, nOk, nBad) ==
  [kind |-> kind, n |-> n, total |-> total, ok |-> nOk, bad |-> nBad]

\* db.rs: a progress line after every ProgressEvery rows.
ProgressEvery == 10000

Init ==
  /\ pc = "Idle"
  /\ file \in Files
  /\ nextLine = 1
  /\ line = None
  /\ result = None
  /\ reInit = FALSE
  /\ rows_vec = << >>
  /\ idx = 0
  /\ ok = 0
  /\ bad = 0
  /\ \/ schema = {} /\ requests = << >>
     \/ schema = Defined(Len(SchemaStmts)) /\ requests = <<PriorRow>>
  /\ buffer = << >>
  /\ calls = << >>
  /\ out = << >>
  /\ src = None
  /\ NoThreads

\* ------------------------------------------------------- main.rs: import

\* main.rs: db::open_db(&db)?
OpenDb ==
  /\ pc = "Idle"
  /\ \E success \in BOOLEAN :
       /\ calls' = Append(calls, Call("open_db", 0, success))
       /\ pc' = IF success THEN "DbOpen" ELSE "Failed"
  /\ UNCHANGED <<file, nextLine, line, result, reInit, rows_vec, idx, ok, bad,
                 schema, requests, buffer, out, src, once, thr, log>>

\* Mutant: the statements are CREATE without IF NOT EXISTS.
NeverSkipped(defined, name) == FALSE

\* CREATE .. IF NOT EXISTS name: there is nothing to create, and nothing
\* that can fail, when name is defined already.
Skipped(defined, name) == name \in defined

\* main.rs: db::init_schema(&conn)?  Each statement is CREATE .. IF NOT
\* EXISTS; the batch stops at the first statement that fails (one that had
\* something to create), with the earlier ones applied.
InitSchema ==
  /\ pc = "DbOpen"
  /\ \E applied \in 0..Len(SchemaStmts) :
       LET success == applied = Len(SchemaStmts) IN
       /\ ~success => ~Skipped(schema, SchemaStmts[applied + 1])
       /\ schema' = schema \cup Defined(applied)
       /\ calls' = Append(calls, Call("init_schema", 0, success))
       /\ pc' = IF success THEN "SchemaReady" ELSE "Failed"
  /\ UNCHANGED <<file, nextLine, line, result, reInit, rows_vec, idx, ok, bad,
                 requests, buffer, out, src, once, thr, log>>

\* main.rs: File::open(&log_path)?, the lazy iterator `rows`, and the call
\* of insert_rows up to rows.collect().
OpenFile ==
  /\ pc = "SchemaReady"
  /\ \E success \in BOOLEAN :
       /\ calls' = Append(calls, Call("open_file", 0, success))
       /\ pc' = IF success THEN "Collecting" ELSE "Failed"
  /\ ok' = 0
  /\ bad' = 0
  /\ UNCHANGED <<file, nextLine, line, result, reInit, rows_vec, idx,
                 schema, requests, buffer, out, src, once, thr, log>>

\* What the filter_map closure yields for one item of lines(), whose parse
\* result is parsed: Some(row) for a line that was read and parsed, None for
\* a line that could not be read or that parse_line refused.
Yielded(entry, parsed) ==
  IF entry.ok /\ parsed.ok THEN Some(parsed.row) ELSE None

\* Mutant: the iteration ends at the first line that cannot be read
\* (lines().map_while(Result::ok)).
NextAfterOk(entry, n) == IF entry.ok THEN n + 1 ELSE Len(file) + 1

\* The number of the line lines() yields next, after item n: the closure
\* returns None for an Err and filter_map goes on with the following item.
NextAfter(entry, n) == n + 1

\* rows.collect(): one item of lines() through the filter_map closure,
\* which calls parse_line once on a line that was read.
ReadLine ==
  /\ pc = "Collecting"
  /\ nextLine <= Len(file)
  /\ \E entry \in {file[nextLine]} :
       \E parsed \in {parse_line(entry.text)} :
         \E item \in {Yielded(entry, parsed)} :
           /\ calls' = Append(calls, Call("read", nextLine, entry.ok))
           /\ line' = IF entry.ok THEN Some(entry.text) ELSE None
           /\ result' = IF entry.ok THEN Some(parsed) ELSE None
           /\ reInit' = (reInit \/ entry.ok)
           /\ rows_vec' = IF item = None THEN rows_vec
                          ELSE Append(rows_vec, [lineNo |-> nextLine, row |-> item[1]])
           /\ nextLine' = NextAfter(entry, nextLine)
  /\ UNCHANGED <<pc, file, idx, ok, bad, schema, requests, buffer, out, src, once, thr, log>>

\* -------------------------------------------------- db.rs: insert_rows

\* Mutant: collect() stops one line early.
InputExhaustedEarly == nextLine >= Len(file)

\* lines() has no further item: rows.collect() returns.
InputExhausted == nextLine > Len(file)

\* The input is exhausted: total, "Processing N log entries...", and
\* conn.appender("requests")?
OpenAppender ==
  /\ pc = "Collecting"
  /\ InputExhausted
  /\ out' = Append(out, Diag("Processing", 0, Len(rows_vec), ok, bad))
  /\ \E success \in BOOLEAN :
       /\ calls' = Append(calls, Call("appender", 0, success))
       /\ pc' = IF success THEN "Appending" ELSE "Failed"
  /\ UNCHANGED <<file, nextLine, line, result, reInit, rows_vec, idx, ok, bad,
                 schema, requests, buffer, src, once, thr, log>>

\* The number a failed append is reported with.
RowNumber(i, r) == i + 1

\* Mutant: a failed append is propagated with `?`.
AfterAppendAbort(success) == IF success THEN "Appending" ELSE "Failed"

\* Where pc goes after an append.
AfterAppend(success) == "Appending"

\* Mutant: the new row goes in front of the earlier ones.
AppendedInFront(buf, row, success) == IF success THEN <<row>> \o buf ELSE buf

\* Mutant: a failed append drops the rows appended so far.
AppendedOrRolledBack(buf, row, success) == IF success THEN Append(buf, row) ELSE << >>

\* The appender's rows after an append of row.
Appended(buf, row, success) == IF success THEN Append(buf, row) ELSE buf

\* One turn of the loop over rows_vec: append_row, which the database may
\* refuse; the counters; the diagnostics.
AppendRow ==
  /\ pc = "Appending"
  /\ idx < Len(rows_vec)
  /\ \E success \in BOOLEAN :
       LET r    == rows_vec[idx + 1]
           ok2  == IF success THEN ok + 1 ELSE ok
           bad2 == IF success THEN bad ELSE bad + 1
           out1 == IF success THEN out
                   ELSE Append(out, Diag("RowFailed", RowNumber(idx, r),
                                         Len(rows_vec), ok2, bad2))
       IN
       /\ calls' = Append(calls, Call("append", r.lineNo, success))
       /\ buffer' = Appended(buffer, SinkRow(r.lineNo, r.row), success)
       /\ ok' = ok2
       /\ bad' = bad2
       /\ out' = IF (idx + 1) % ProgressEvery = 0
                 THEN Append(out1, Diag("Progress", idx + 1, Len(rows_vec), ok2, bad2))
                 ELSE out1
       /\ pc' = AfterAppend(success)
  /\ idx' = idx + 1
  /\ UNCHANGED <<file, nextLine, line, result, reInit, rows_vec,
                 schema, requests, src, once, thr, log>>

\* Mutant: the loop is left one row early.
LoopDoneEarly == idx + 1 >= Len(rows_vec)

\* Mutant: the loop's exit test is off by one and never holds.
LoopNeverDone == idx > Len(rows_vec)

\* The loop may be left once every row of rows_vec was gone through.
LoopDone == idx = Len(rows_vec)

\* Mutant: a failed flush is propagated (appender.flush()?).
AfterFlushAbort(success) == IF success THEN "Flushed" ELSE "Failed"

\* Where pc goes after the flush: `let _ =` drops its result.
AfterFlush(success) == "Flushed"

\* let _ = appender.flush(); println!("Import complete!").  A flush that
\* succeeds makes the appender's rows durable; its result is dropped.
Flush ==
  /\ pc = "Appending"
  /\ LoopDone
  /\ \E success \in BOOLEAN :
       /\ calls' = Append(calls, Call("flush", 0, success))
       /\ requests' = IF success THEN requests \o buffer ELSE requests
       /\ buffer' = IF success THEN << >> ELSE buffer
       /\ pc' = AfterFlush(success)
  /\ out' = Append(out, Diag("Import complete!", 0, Len(rows_vec), ok, bad))
  /\ UNCHANGED <<file, nextLine, line, result, reInit, rows_vec, idx, ok, bad,
                 schema, src, once, thr, log>>

\* Ok((ok, bad)), and main's "import complete: ok={} bad={}".
Report ==
  /\ pc = "Flushed"
  /\ out' = Append(out, Diag("import complete", 0, Len(rows_vec), ok, bad))
  /\ pc' = "Done"
  /\ UNCHANGED <<file, nextLine, line, result, reInit, rows_vec, idx, ok, bad,
                 schema, requests, buffer, calls, src, once, thr, log>>

Next ==
  \/ OpenDb
  \/ InitSchema
  \/ OpenFile
  \/ ReadLine
  \/ OpenAppender
  \/ AppendRow
  \/ Flush
  \/ Report

Spec == Init /\ [][Next]_vars

\* ENABLED <<ReadLine>>_vars, written out: ReadLine always moves nextLine.
ReadLineEnabled == pc = "Collecting" /\ nextLine <= Len(file)

\* The import is one sequential program: it keeps taking steps until main
\* returns.  Weak fairness of every action; that of ReadLine is stated
\* with its enabling condition written out.
FairSpec ==
  /\ Spec
  /\ WF_vars(OpenDb)
  /\ WF_vars(InitSchema)
  /\ WF_vars(OpenFile)
  /\ (<>[]ReadLineEnabled => []<><<ReadLine>>_vars)
  /\ WF_vars(OpenAppender)
  /\ WF_vars(AppendRow)
  /\ WF_vars(Flush)
  /\ WF_vars(Report)

\* The import of a file of RejectFiles.
RejectInit ==
  /\ pc = "Idle"
  /\ file \in RejectFiles
  /\ nextLine = 1
  /\ line = None
  /\ result = None
  /\ reInit = FALSE
  /\ rows_vec = << >>
  /\ idx = 0
  /\ ok = 0
  /\ bad = 0
  /\ \/ schema = {} /\ requests = << >>
     \/ schema = Defined(Len(SchemaStmts)) /\ requests = <<PriorRow>>
  /\ buffer = << >>
  /\ calls = << >>
  /\ out = << >>
  /\ src = None
  /\ NoThreads

RejectSpec == RejectInit /\ [][Next]_vars

\* ------------------------------------------------- the end of a long run

\* Turns of the append loop a long run is followed through.
LoopTail == 3

\* A file of ProgressEvery lines, all well-formed but line badAt (none is
\* malformed when badAt = 0).
LongFile(badAt) ==
  [i \in 1..ProgressEvery |->
     IF i = badAt THEN ReadOk(LineOpenQuote) ELSE ReadOk(LineGood)]

\* The state of `ezvis import` on a new database and file f when the append
\* loop has gone through the first k rows of rows_vec, every call so far
\* having succeeded: the value of each variable, as OpenDb, InitSchema,
\* OpenFile, ReadLine (once per line), OpenAppender and AppendRow (k times)
\* leave it.  parsed[t] is parse_line(t) for each text t of f.
InLoop(f, k, parsed) ==
  LET Accepted(i) == f[i].ok /\ parsed[f[i].text].ok
      lineNos == SelectSeq([i \in 1..Len(f) |-> i], Accepted)
      rows    == [j \in 1..Len(lineNos) |->
                    [lineNo |-> lineNos[j],
                     row    |-> parsed[f[lineNos[j]].text].row]]
      last    == f[Len(f)]
  IN  [pc       |-> "Appending",
       file     |-> f,
       nextLine |-> Len(f) + 1,
       line     |-> IF Len(f) > 0 /\ last.ok THEN Some(last.text) ELSE None,
       result   |-> IF Len(f) > 0 /\ last.ok THEN Some(parsed[last.text])
                    ELSE None,
       reInit   |-> \E i \in 1..Len(f) : f[i].ok,
       rows_vec |-> rows,
       idx      |-> k,
       ok       |-> k,
       bad      |-> 0,
       schema   |-> Defined(Len(SchemaStmts)),
       requests |-> << >>,
       buffer   |-> [j \in 1..k |-> SinkRow(rows[j].lineNo, rows[j].row)],
       calls    |-> <<Call("open_db", 0, TRUE), Call("init_schema", 0, TRUE),
                      Call("open_file", 0, TRUE)>>
                    \o [i \in 1..Len(f) |-> Call("read", i, f[i].ok)]
                    \o <<Call("appender", 0, TRUE)>>
                    \o [j \in 1..k |-> Call("append", rows[j].lineNo, TRUE)],
       out      |-> <<Diag("Processing", 0, Len(rows), 0, 0)>>
                    \o [j \in 1..(k \div ProgressEvery) |->
                          Diag("Progress", j * ProgressEvery, Len(rows),
                               j * ProgressEvery, 0)]]

\* The variables of the import, as a record.
ImportState ==
  [pc |-> pc, file |-> file, nextLine |-> nextLine, line |-> line,
   result |-> result, reInit |-> reInit, rows_vec |-> rows_vec, idx |-> idx,
   ok |-> ok, bad |-> bad, schema |-> schema, requests |-> requests,
   buffer |-> buffer, calls |-> calls, out |-> out]

\* InLoop describes the states Spec reaches: in the append loop of a run
\* on a new database in which no append failed, the variables are as
\* InLoop says.
InLoopIsReached ==
  ( /\ pc = "Appending"
    /\ requests = << >>
    /\ \A i \in DOMAIN calls : calls[i].op = "append" => calls[i].ok )
  => ImportState =
       InLoop(file, idx, [t \in {e.text : e \in FileEntries} |-> parse_line(t)])

\* A run over a file of ProgressEvery lines, LoopTail rows before the end of
\* the append loop.
LongInit ==
  /\ \E badAt \in {0, 1, ProgressEvery} :
       \E parsed \in {[t \in {LineGood, LineOpenQuote} |-> parse_line(t)]} :
         \E f \in {LongFile(badAt)} :
           \E n \in {IF badAt = 0 THEN ProgressEvery ELSE ProgressEvery - 1} :
             \E st \in {InLoop(f, n - LoopTail, parsed)} :
               /\ pc = st.pc
               /\ file = st.file
               /\ nextLine = st.nextLine
               /\ line = st.line
               /\ result = st.result
               /\ reInit = st.reInit
               /\ rows_vec = st.rows_vec
               /\ idx = st.idx
               /\ ok = st.ok
               /\ bad = st.bad
               /\ schema = st.schema
               /\ requests = st.requests
               /\ buffer = st.buffer
               /\ calls = st.calls
               /\ out = st.out
  /\ src = None
  /\ NoThreads

\* From there on: the rest of the append loop, the flush and the report.
LongNext ==
  \/ AppendRow
  \/ Flush
  \/ Report

LongSpec == LongInit /\ [][LongNext]_vars

\* ------------------------------------------- parse_line called on its own

ParseInit ==
  /\ pc = "Parser"
  /\ \E f \in GenFields : src = Some(f) /\ line = Some(Render(f))
  /\ file = << >>
  /\ nextLine = 1
  /\ result = None
  /\ reInit = FALSE
  /\ rows_vec = << >>
  /\ idx = 0
  /\ ok = 0
  /\ bad = 0
  /\ schema = {}
  /\ requests = << >>
  /\ buffer = << >>
  /\ calls = << >>
  /\ out = << >>
  /\ NoThreads

CallParseLine ==
  /\ pc = "Parser"
  /\ result = None
  /\ result' = Some(parse_line(line[1]))
  /\ reInit' = TRUE
  /\ UNCHANGED <<pc, file, nextLine, line, rows_vec, idx, ok, bad,
                 schema, requests, buffer, calls, out, src, once, thr, log>>

ParseNext == CallParseLine

ParseSpec == ParseInit /\ [][ParseNext]_vars

\* parse_line called on the probe lines.
FieldInit ==
  /\ pc = "Parser"
  /\ \E f \in ProbeFields : src = Some(f) /\ line = Some(Render(f))
  /\ file = << >>
  /\ nextLine = 1
  /\ result = None
  /\ reInit = FALSE
  /\ rows_vec = << >>
  /\ idx = 0
  /\ ok = 0
  /\ bad = 0
  /\ schema = {}
  /\ requests = << >>
  /\ buffer = << >>
  /\ calls = << >>
  /\ out = << >>
  /\ NoThreads

FieldSpec == FieldInit /\ [][ParseNext]_vars

\* ------------------------------------- parse_line called by several threads

\* Threads that call parse_line.
NumThreads == 2

\* Calls of parse_line in a run, all threads together.
MaxCalls == 3

Threads == 1..NumThreads

\* A well-formed line that ends in a blank.
LinePadded == LineGood \o <<" ">>

\* The lines the threads parse: one parse_line accepts, one it refuses.
CallLines == {LinePadded, LineOpenQuote}

\* Where a thread is: outside parse_line ("idle"), at RE.get_or_init, held
\* there while another thread initialises RE ("blocked"), in the closure
\* ("compiling"), or past get_or_init with the reference re ("captures").
\* warm: get_or_init found RE initialised; waited: it was held there.
Thread(at, text, re, warm, waited) ==
  [pc |-> at, line |-> text, re |-> re, warm |-> warm, waited |-> waited]

\* Calls of parse_line made so far, returned or not.
Started == Len(log) + Cardinality({t \in Threads : thr[t].pc # "idle"})

CallInit ==
  /\ pc = "Threads"
  /\ once = OnceNew
  /\ thr = [t \in Threads |-> Thread("idle", << >>, None, FALSE, FALSE)]
  /\ log = << >>
  /\ file = << >>
  /\ nextLine = 1
  /\ line = None
  /\ result = None
  /\ reInit = FALSE
  /\ rows_vec = << >>
  /\ idx = 0
  /\ ok = 0
  /\ bad = 0
  /\ schema = {}
  /\ requests = << >>
  /\ buffer = << >>
  /\ calls = << >>
  /\ out = << >>
  /\ src = None

\* Thread t calls parse_line(l) and reaches RE.get_or_init.
Enter(t) ==
  /\ thr[t].pc = "idle"
  /\ Started < MaxCalls
  /\ \E l \in CallLines :
       thr' = [thr EXCEPT ![t] = Thread("get_or_init", l, None, FALSE, FALSE)]
  /\ UNCHANGED <<pc, file, nextLine, line, result, reInit, rows_vec, idx, ok,
                 bad, schema, requests, buffer, calls, out, src, once, log>>

\* Mutant: the cached pattern is not the one that was compiled: it lost
\* its last atom.
GetStale(cell) ==
  IF cell.state = "set"
  THEN Some(SubSeq(cell.value[1], 1, Len(cell.value[1]) - 1))
  ELSE None

\* OnceLock::get: the content of an initialised cell.
Get(cell) == IF cell.state = "set" THEN cell.value ELSE None

\* get_or_init on an initialised cell: the reference to its content.
TakeRef(t) ==
  /\ thr[t].pc \in {"get_or_init", "blocked"}
  /\ Get(once) # None
  /\ thr' = [thr EXCEPT ![t] = Thread("captures", thr[t].line, Get(once),
                                      TRUE, thr[t].waited)]
  /\ UNCHANGED <<pc, file, nextLine, line, result, reInit, rows_vec, idx, ok,
                 bad, schema, requests, buffer, calls, out, src, once, log>>

\* Mutant: a cell without the lock: every thread that finds it not yet
\* initialised runs the closure.
MayInitUnlocked(state) == state # "set"

\* A thread runs the closure of get_or_init only if it finds the cell
\* empty; it then holds the cell's lock.
MayInit(state) == state = "empty"

\* get_or_init on an empty cell: thread t is the one to run the closure.
BeginInit(t) ==
  /\ thr[t].pc = "get_or_init"
  /\ MayInit(once.state)
  /\ once' = [once EXCEPT !.state = "running"]
  /\ thr' = [thr EXCEPT ![t].pc = "compiling"]
  /\ UNCHANGED <<pc, file, nextLine, line, result, reInit, rows_vec, idx, ok,
                 bad, schema, requests, buffer, calls, out, src, log>>

\* get_or_init while another thread runs the closure: thread t is held.
Wait(t) ==
  /\ thr[t].pc = "get_or_init"
  /\ once.state = "running"
  /\ thr' = [thr EXCEPT ![t].pc = "blocked", ![t].waited = TRUE]
  /\ UNCHANGED <<pc, file, nextLine, line, result, reInit, rows_vec, idx, ok,
                 bad, schema, requests, buffer, calls, out, src, once, log>>

\* The cell after the closure returned pattern: the first value stays.
Stored(cell, pattern) ==
  IF cell.state = "set" THEN cell
  ELSE [state |-> "set", value |-> Some(pattern)]

\* The closure: Regex::new(..).expect(..); its value is stored in the cell
\* and get_or_init returns the reference to the cell's content.
FinishInit(t) ==
  /\ thr[t].pc = "compiling"
  /\ once' = Stored(once, RE)
  /\ calls' = Append(calls, Call("Regex::new", t, TRUE))
  /\ reInit' = TRUE
  /\ thr' = [thr EXCEPT ![t] = Thread("captures", thr[t].line, once'.value,
                                      FALSE, FALSE)]
  /\ UNCHANGED <<pc, file, nextLine, line, result, rows_vec, idx, ok, bad,
                 schema, requests, buffer, out, src, log>>

\* The rest of parse_line with the reference get_or_init returned.
Return(t) ==
  /\ thr[t].pc = "captures"
  /\ \E r \in {parse_with(thr[t].re[1], thr[t].line)} :
       log' = Append(log, [thread |-> t, line |-> thr[t].line,
                           warm |-> thr[t].warm, waited |-> thr[t].waited,
                           result |-> r])
  /\ thr' = [thr EXCEPT ![t] = Thread("idle", << >>, None, FALSE, FALSE)]
  /\ UNCHANGED <<pc, file, nextLine, line, result, reInit, rows_vec, idx, ok,
                 bad, schema, requests, buffer, calls, out, src, once>>

CallNext ==
  \E t \in Threads :
    \/ Enter(t)
    \/ TakeRef(t)
    \/ BeginInit(t)
    \/ Wait(t)
    \/ FinishInit(t)
    \/ Return(t)

CallSpec == CallInit /\ [][CallNext]_vars

\* ---------------------------------------------------------------- claims

\* Line i of the file was read and parse_line accepts it.
ParsesOk(i) == file[i].ok /\ parse_line(file[i].text).ok

\* The lines of the file that were read and that parse_line refuses.
Malformed == {i \in DOMAIN file : file[i].ok /\ ~parse_line(file[i].text).ok}

IsAppend(c) == c.op = "append"

IsFlush(c) == c.op = "flush"

IsRead(c) == c.op = "read"

OfThisRun(r) == r.lineNo > 0

\* The append_row calls so far, in order.
Attempts == SelectSeq(calls, IsAppend)

\* The rows of this run the database holds, flushed or not, in order.
Landed == SelectSeq(requests \o buffer, OfThisRun)

LastCall == calls[Len(calls)]

\* The counts main printed.
Reported == out[Len(out)]

\* C1: for an input of N lines of which K fail to parse, with no failing
\* append, the completed run reports accepted + rejected = N and
\* accepted = N - K.
C1_CountsCoverEveryLine ==
  ( /\ pc = "Done"
    /\ \A i \in DOMAIN file : file[i].ok
    /\ \A i \in DOMAIN calls : IsAppend(calls[i]) => calls[i].ok )
  => /\ Reported.ok + Reported.bad = Len(file)
     /\ Reported.ok = Len(file) - Cardinality(Malformed)

\* C2: the rows the database received are those of the lines that parsed and
\* whose append succeeded, each as parse_line built it, in the order of the
\* lines; append_row is called at most once per line, in the order of the
\* lines, and once the run is complete exactly for the lines that parsed.
C2_SinkIsAcceptedSubsequence ==
  LET good == SelectSeq(Attempts, LAMBDA c : c.ok) IN
  /\ \A i, j \in DOMAIN Attempts : i < j => Attempts[i].line < Attempts[j].line
  /\ Len(Landed) = Len(good)
  /\ \A k \in DOMAIN Landed :
       /\ good[k].line \in DOMAIN file
       /\ ParsesOk(good[k].line)
       /\ Landed[k] = SinkRow(good[k].line, parse_line(file[good[k].line].text).row)
  /\ pc = "Done" =>
       {Attempts[i].line : i \in DOMAIN Attempts} = {i \in DOMAIN file : ParsesOk(i)}

\* Three lines, the second malformed: the first and the third are in the
\* database.
C2_Witness ==
  /\ pc = "Done"
  /\ Len(file) = 3
  /\ Malformed = {2}
  /\ Len(Landed) = 2

\* This step is an append_row call that failed.
AppendFailedStep ==
  /\ Len(calls') = Len(calls) + 1
  /\ IsAppend(calls'[Len(calls')])
  /\ ~calls'[Len(calls')].ok

\* C3: a failed append adds one to bad and nothing to ok, leaves the rows
\* appended so far where they are, and the loop goes on: in a completed run
\* every row of rows_vec was offered to the database.
C3_AppendFailureIsCountedAndSkipped ==
  /\ [][AppendFailedStep =>
          /\ bad' = bad + 1
          /\ ok' = ok
          /\ buffer' = buffer
          /\ requests' = requests
          /\ idx' = idx + 1
          /\ pc' = "Appending"]_vars
  /\ [](pc = "Done" => Len(Attempts) = Len(rows_vec))

\* An append fails after one succeeded and before another succeeds; the
\* run completes with both rows in the database.
C3_Witness ==
  /\ pc = "Done"
  /\ Len(Attempts) = 3
  /\ Attempts[1].ok /\ ~Attempts[2].ok /\ Attempts[3].ok
  /\ Len(Landed) = 2
  /\ Reported.ok = 2 /\ Reported.bad = 1

\* Line i failed: parse_line refused it, or its append failed.
LineFailed(i) ==
  \/ i \in Malformed
  \/ \E k \in DOMAIN Attempts : Attempts[k].line = i /\ ~Attempts[k].ok

\* C4: every line that failed (parse or append) has a diagnostic, and the
\* number in a failure diagnostic is the 1-based number of a failed line.
C4_DiagnosticNamesTheLine ==
  pc = "Done" =>
    /\ \A i \in DOMAIN file :
         LineFailed(i) => \E d \in DOMAIN out : out[d].kind = "RowFailed" /\ out[d].n = i
    /\ \A d \in DOMAIN out :
         out[d].kind = "RowFailed" => out[d].n \in DOMAIN file /\ LineFailed(out[d].n)

\* C5: flush is called at most once; when it is called every row of
\* rows_vec has been offered and no call follows it; a run that opened the
\* appender and left insert_rows has called it, before any count is printed.
C5_FlushOnceAfterLastAppend ==
  /\ \A i, j \in DOMAIN calls : IsFlush(calls[i]) /\ IsFlush(calls[j]) => i = j
  /\ \A i \in DOMAIN calls :
       IsFlush(calls[i]) => i = Len(calls) /\ Len(Attempts) = Len(rows_vec)
  /\ pc \in {"Flushed", "Done"} => \E i \in DOMAIN calls : IsFlush(calls[i])
  /\ pc = "Appending" => \A i \in DOMAIN calls : ~IsFlush(calls[i])
  /\ \A d \in DOMAIN out :
       out[d].kind \in {"Import complete!", "import complete"}
         => \E i \in DOMAIN calls : IsFlush(calls[i])

\* A completed run with two appends, then the flush.
C5_Witness ==
  /\ pc = "Done"
  /\ Len(Attempts) = 2
  /\ IsFlush(LastCall)

SetupOps == {"open_db", "init_schema", "open_file", "appender"}

\* C6: main returns an error only after open_db, init_schema, File::open or
\* conn.appender failed, and then no row was appended and no count printed;
\* a line that fails never makes it return an error.
C6_OnlySetupFailuresAbort ==
  pc = "Failed" =>
    /\ LastCall.op \in SetupOps /\ ~LastCall.ok
    /\ Attempts = << >>
    /\ Landed = << >>
    /\ \A d \in DOMAIN out : out[d].kind # "import complete"
    /\ ok = 0 /\ bad = 0

\* The appender cannot be opened after a file with a malformed line and an
\* unreadable one was collected.
C6_Witness ==
  /\ pc = "Failed"
  /\ LastCall.op = "appender"
  /\ Malformed # {}
  /\ \E i \in DOMAIN file : ~file[i].ok
  /\ rows_vec # << >>

\* C7 as stated: once the database, the schema and the input are set up,
\* the run reaches Done.
C7_SetupLeadsToDone == (pc = "Collecting") ~> (pc = "Done")

\* C7, amended: once the appender is open as well, the run reaches Done and
\* has printed its counts.
C7_AppenderLeadsToDone ==
  (pc = "Appending") ~> (pc = "Done" /\ Reported.kind = "import complete")

\* A run with a malformed line and a failed append that reaches Done.
C7_Witness ==
  /\ pc = "Done"
  /\ Malformed # {}
  /\ Reported.bad > 0
  /\ Reported.ok > 0

\* The phases of the run, in order; an aborted run has left them.
Phase(p) ==
  CASE p \in {"Idle", "DbOpen"}          -> 0
    [] p = "SchemaReady"                 -> 1
    [] p \in {"Collecting", "Appending"} -> 2
    [] p = "Flushed"                     -> 3
    [] p = "Done"                        -> 4
    [] OTHER                             -> 5

\* C8: the run never goes back to an earlier phase; a line is read or a row
\* appended only after init_schema succeeded; flush is called only after
\* lines() is exhausted.
C8_PhasesInOrder ==
  /\ [][Phase(pc') >= Phase(pc)]_vars
  /\ [](\A i \in DOMAIN calls :
          /\ (IsRead(calls[i]) \/ IsAppend(calls[i])) =>
               \E j \in 1..(i - 1) : calls[j].op = "init_schema" /\ calls[j].ok
          /\ IsFlush(calls[i]) =>
               Len(SelectSeq(SubSeq(calls, 1, i), IsRead)) = Len(file))

\* A completed run over a file of three lines.
C8_Witness ==
  /\ pc = "Done"
  /\ Len(file) = 3
  /\ IsFlush(LastCall)
  /\ Len(Attempts) >= 2

\* parse_line returned a row.
Parsed == result # None /\ result[1].ok

Row == result[1].row

\* Absent when the trimmed text is "-" or empty, else the trimmed text.
DashOrEmptyIsAbsent(text, field) ==
  IF Trim(text) \in {<<"-">>, << >>} THEN field = None ELSE field = Some(Trim(text))

\* C9 as stated: identd, user_or_session, country and user_agent alike are
\* absent when the source field is "-" or empty after trimming, and the
\* trimmed source text otherwise.
C9_DashOrEmptyIsAbsent ==
  Parsed =>
    /\ DashOrEmptyIsAbsent(src[1].identd, Row.identd)
    /\ DashOrEmptyIsAbsent(src[1].user, Row.user_or_session)
    /\ DashOrEmptyIsAbsent(src[1].country, Row.country)
    /\ DashOrEmptyIsAbsent(src[1].ua, Row.user_agent)

AbsentIf(text, placeholder, field) ==
  IF Trim(text) = placeholder THEN field = None ELSE field = Some(Trim(text))

\* C9, amended: identd and user_or_session are absent exactly when the
\* trimmed source field is "-"; country and user_agent are absent exactly
\* when the source field is empty after trimming (a "-" is kept as text);
\* otherwise the field is the trimmed source text.
C9_AbsentFields ==
  Parsed =>
    /\ AbsentIf(src[1].identd, <<"-">>, Row.identd)
    /\ AbsentIf(src[1].user, <<"-">>, Row.user_or_session)
    /\ AbsentIf(src[1].country, << >>, Row.country)
    /\ AbsentIf(src[1].ua, << >>, Row.user_agent)

\* A line with identd "-", country " - " and a user agent padded with
\* blanks: identd absent, country the text "-", the user agent trimmed.
C9_Witness ==
  /\ Parsed
  /\ src[1].identd = <<"-">> /\ Row.identd = None
  /\ src[1].country = <<" ", "-", " ">> /\ Row.country = Some(<<"-">>)
  /\ src[1].ua = <<" ", "M", " ", "x", " ">> /\ Row.user_agent = Some(<<"M", " ", "x">>)

\* C10: the row's raw is the line parse_line was given, trailing white
\* space included.
C10_RawIsTheLine == Parsed => Row.raw = line[1]

\* An accepted line that ends in white space.
C10_Witness ==
  /\ Parsed
  /\ src[1].tail # << >>
  /\ Row.raw = Render(src[1])

\* parse_line was called and has returned.
Called == result # None

\* One or more ASCII digits.
Digits(t) == t # << >> /\ AllIn(t, AsciiDigits)

\* The line's status field is well-formed.
StatusGood == src[1].status = <<"2", "0", "0">>

\* An i64 as the model keeps it: the sign and the digits of the magnitude.
I64(neg, digits) ==
  [neg |-> neg /\ StripZeros(digits) # <<"0">>, mag |-> StripZeros(digits)]

\* C11 as stated: on an otherwise well-formed line, a bytes field "-" gives
\* bytes absent; a string of digits within the i64 range gives that
\* integer; any other bytes field fails the line.
C11_BytesThreeWays ==
  (Called /\ StatusGood) =>
    LET b == src[1].bytes IN
    IF b = <<"-">> THEN Parsed /\ Row.bytes = None
    ELSE IF Digits(b) /\ DigitsLeq(StripZeros(b), I64MaxDigits)
    THEN Parsed /\ Row.bytes = Some(I64(FALSE, b))
    ELSE ~Parsed

\* C11, amended: a bytes field "-" gives bytes absent; ASCII digits with an
\* optional leading + or -, of a value from -2^63 to 2^63 - 1, give that
\* integer; any other bytes field fails the line.
C11_BytesSignedDecimal ==
  (Called /\ StatusGood) =>
    LET b      == src[1].bytes
        neg    == Head(b) = "-"
        digits == IF Head(b) \in {"+", "-"} THEN Tail(b) ELSE b
    IN
    IF b = <<"-">> THEN Parsed /\ Row.bytes = None
    ELSE IF /\ Digits(digits)
            /\ DigitsLeq(StripZeros(digits),
                         IF neg THEN I64MinDigits ELSE I64MaxDigits)
    THEN Parsed /\ Row.bytes = Some(I64(neg, digits))
    ELSE ~Parsed

\* The smallest i64, written with its sign, is accepted as that integer.
C11_Witness ==
  /\ Parsed
  /\ src[1].bytes = <<"-">> \o I64MinDigits
  /\ Row.bytes = Some([neg |-> TRUE, mag |-> I64MinDigits])

\* C12: parse_line returns a row only for a status field of exactly three
\* ASCII digits, and the row's status is their value; any other status
\* field fails the line.
C12_StatusThreeAsciiDigits ==
  Called =>
    LET st    == src[1].status
        shape == Len(st) = 3 /\ AllIn(st, AsciiDigits)
    IN  /\ Parsed => shape /\ Row.status = DecValue(st)
        /\ ~shape => ~Parsed

\* Three Arabic-Indic digits (decimal digits for the pattern's \d) on an
\* otherwise well-formed line: the line fails.
C12_Witness ==
  /\ Called
  /\ ~Parsed
  /\ src[1].status = <<"u0663", "u0663", "u0663">>
  /\ src[1].bytes = <<"5">>
  /\ src[1].url = UrlAbs

\* The request target starts with a scheme and a colon.
HasScheme(u) ==
  LET colon == FindFirst(u, 1, {":"})
  IN  /\ colon > 1 /\ colon <= Len(u)
      /\ IsAlpha(u[1])
      /\ AllIn(SubSeq(u, 1, colon - 1), SchemeChars)

\* The port the target writes after its host ("" when it writes none).
WrittenPort(u) ==
  LET colon == FindFirst(u, 1, {":"})
      rest  == SubSeq(u, colon + 1, Len(u))
      auth  == SubSeq(rest, 3, FindFirst(rest, 3, {"/", "?", "#"}) - 1)
      at    == LastColon(auth, Len(auth))
  IN  IF ~HasPrefix(rest, <<"/", "/">>) \/ at = 0 THEN << >>
      ELSE SubSeq(auth, at + 1, Len(auth))

UrlPartsAbsent ==
  /\ Row.scheme = None /\ Row.host = None /\ Row.port = None
  /\ Row.path = None /\ Row.query = None

\* C13: whatever the request target, an otherwise well-formed line is
\* accepted with url as written; a target Url::parse refuses, and any target
\* without a scheme, leaves scheme, host, port, path and query all absent;
\* port is present only for a target with a scheme that writes a port, and
\* is that port.
C13_UrlFailureKeepsTheLine ==
  (Called /\ StatusGood /\ src[1].bytes \in {<<"-">>, <<"5">>}) =>
    LET u == src[1].url IN
    /\ Parsed
    /\ Row.url = u
    /\ (~UrlParse(u).ok \/ ~HasScheme(u)) => UrlPartsAbsent
    /\ Row.port # None =>
         /\ HasScheme(u)
         /\ Digits(WrittenPort(u))
         /\ Row.port = Some(DecValue(WrittenPort(u)))

\* A target with host and port but no scheme: accepted, nothing decomposed.
C13_Witness ==
  /\ Parsed
  /\ src[1].url = UrlSchemeRel
  /\ Row.url = UrlSchemeRel
  /\ UrlPartsAbsent

\* The fields of LogRow.
RowFields ==
  {"remote_addr", "identd", "user_or_session", "ts", "method", "url",
   "scheme", "host", "port", "path", "query", "http_version", "status",
   "bytes", "country", "user_agent", "raw"}

\* A line with ten groups, one without the closing quote of the user agent,
\* one whose timestamp is no date.
Refused == {LineShort, LineOpenQuote, LineBadTs}

\* C14: what parse_line returns is a failure without a row or a row with
\* every field of LogRow; for a line with ten groups, a line without the
\* closing quote of the user agent and a line whose timestamp does not parse
\* it is a failure, and no row of such a line is collected, offered to the
\* database or stored.
C14_RecordOrFailure ==
  /\ Called =>
       \/ result[1].ok /\ DOMAIN result[1] = {"ok", "row"}
                       /\ DOMAIN result[1].row = RowFields
       \/ ~result[1].ok /\ DOMAIN result[1] = {"ok", "err"}
  /\ (line # None /\ line[1] \in Refused) => Called /\ ~result[1].ok
  /\ \A i \in DOMAIN file :
       file[i].text \in Refused =>
         /\ \A k \in DOMAIN rows_vec : rows_vec[k].lineNo # i
         /\ \A k \in DOMAIN calls : IsAppend(calls[k]) => calls[k].line # i
         /\ \A k \in DOMAIN Landed : Landed[k].lineNo # i
  /\ \A k \in DOMAIN rows_vec : DOMAIN rows_vec[k].row = RowFields

\* A completed run over a line whose timestamp is no date and a well-formed
\* line: only the second is in the database.
C14_Witness ==
  /\ pc = "Done"
  /\ Len(file) = 2
  /\ file[1].text = LineBadTs
  /\ file[2].text = LineGood
  /\ Len(Landed) = 1
  /\ Landed[1].lineNo = 2

\* C15: two calls of parse_line on the same line return the same result,
\* field for field (both the same row or both a failure), whether RE was
\* initialised when the call was made or not, and whatever was parsed
\* between them.
C15_SameLineSameResult ==
  \A i, j \in DOMAIN log :
    log[i].line = log[j].line => log[i].result = log[j].result

\* The padded line is parsed by the call that initialises RE, another line
\* is parsed, then the padded line again: both give the same row.
C15_Witness ==
  /\ Len(log) = 3
  /\ log[1].line = LinePadded /\ ~log[1].warm
  /\ log[2].line = LineOpenQuote
  /\ log[3].line = LinePadded /\ log[3].warm
  /\ log[1].result.ok
  /\ log[3].result = log[1].result

\* The closure of get_or_init has run.
IsCompile(c) == c.op = "Regex::new"

\* C16: with threads calling parse_line at once, Regex::new runs at most
\* once, the cell of RE does not change once it is initialised, every
\* thread past get_or_init holds the compiled pattern, and every call
\* returns what parse_line returns for its line when called on its own.
C16_InitOnceSameResults ==
  /\ [][once.state = "set" => once' = once]_vars
  /\ [](/\ Len(SelectSeq(calls, IsCompile)) <= 1
        /\ \A t \in Threads : thr[t].pc = "captures" => thr[t].re = Some(RE)
        /\ \A i \in DOMAIN log : log[i].result = parse_line(log[i].line))

\* Both threads made their first call while RE was empty: one ran the
\* closure, the other was held in get_or_init; both returned a row.
C16_Witness ==
  /\ Len(log) = 2
  /\ log[1].thread # log[2].thread
  /\ \E i \in DOMAIN log : log[i].waited
  /\ \E i \in DOMAIN log : ~log[i].warm
  /\ \A i \in DOMAIN log : log[i].result.ok

\* This step is a call of init_schema.
InitSchemaStep ==
  /\ Len(calls') = Len(calls) + 1
  /\ calls'[Len(calls')].op = "init_schema"

\* C17: init_schema called on a database that defines the table and the
\* four indexes succeeds, and leaves the definitions and the rows of the
\* table as they were.
C17_InitSchemaIdempotent ==
  [][(InitSchemaStep /\ schema = Defined(Len(SchemaStmts))) =>
       /\ calls'[Len(calls')].ok
       /\ pc' = "SchemaReady"
       /\ schema' = schema
       /\ requests' = requests]_vars

\* init_schema has returned Ok on a database an earlier import filled.
C17_Witness ==
  /\ pc = "SchemaReady"
  /\ LastCall.op = "init_schema" /\ LastCall.ok
  /\ schema = Defined(Len(SchemaStmts))
  /\ requests = <<PriorRow>>

IsProgress(d) == d.kind = "Progress"

\* The progress diagnostics printed so far, in order.
ProgressDiags == SelectSeq(out, IsProgress)

\* C18: in a completed run over lines that were all read, there is one
\* progress diagnostic per ProgressEvery lines of the input (well-formed or
\* not); the j-th has the number j * ProgressEvery, and its counts, with
\* the lines parse_line refused so far, add up to that number; the counts
\* the run reports are those of the append_row calls.
C18_ProgressEveryLines ==
  (pc = "Done" /\ \A i \in DOMAIN file : file[i].ok) =>
    /\ Len(ProgressDiags) = Len(file) \div ProgressEvery
    /\ \A j \in DOMAIN ProgressDiags :
         LET d == ProgressDiags[j]
             refused == {i \in Malformed : i <= j * ProgressEvery}
         IN  /\ d.n = j * ProgressEvery
             /\ d.ok + d.bad + Cardinality(refused) = j * ProgressEvery
    /\ Reported.ok = Len(SelectSeq(Attempts, LAMBDA c : c.ok))
    /\ Reported.bad = Len(SelectSeq(Attempts, LAMBDA c : ~c.ok))

\* The rows parse_line built that were not yet offered to the database.
Held == Len(rows_vec) - Len(Attempts)

\* C19 as stated: the row of a line is offered to the database before the
\* next line is read, so at most one row is held that was not offered yet.
C19_AtMostOneRowHeld == Held <= 1

\* C19, amended: every line is read and parsed, and the rows collected,
\* before the first row is offered to the database: no line is read after
\* an append, an append finds every line read, the rows of all lines that
\* parsed so far are held in rows_vec (offered or not), and they are
\* offered in the order of the lines.
C19_CollectedBeforeAppended ==
  /\ \A i, j \in DOMAIN calls :
       (IsAppend(calls[i]) /\ i < j) => ~IsRead(calls[j])
  /\ Attempts # << >> => Len(SelectSeq(calls, IsRead)) = Len(file)
  /\ Len(rows_vec) = Cardinality({i \in 1..(nextLine - 1) : ParsesOk(i)})
  /\ \A k \in DOMAIN Attempts : Attempts[k].line = rows_vec[k].lineNo

\* Three rows were collected, and the first is offered only now.
C19_Witness ==
  /\ pc = "Appending"
  /\ Len(rows_vec) = 3
  /\ Len(Attempts) = 1
  /\ Held = 2

\* The flush was called and failed.
FlushFailed == \E i \in DOMAIN calls : IsFlush(calls[i]) /\ ~calls[i].ok

\* C20: a flush that fails does not make the run fail: insert_rows returns
\* and main prints the counts of the appends that succeeded and of those
\* that failed, whether the flush succeeded or not (so that a row counted
\* in ok need not be in the table).
C20_FlushFailureIgnored ==
  /\ FlushFailed => pc \in {"Flushed", "Done"}
  /\ pc = "Done" =>
       /\ Reported.kind = "import complete"
       /\ Reported.ok = Len(SelectSeq(Attempts, LAMBDA c : c.ok))
       /\ Reported.bad = Len(SelectSeq(Attempts, LAMBDA c : ~c.ok))

\* The flush failed after two appends succeeded: the run reports ok=2 and
\* the table has none of the two rows.
C20_Witness ==
  /\ pc = "Done"
  /\ FlushFailed
  /\ Reported.ok = 2
  /\ Reported.bad = 0
  /\ SelectSeq(requests, OfThisRun) = << >>

\* This step is a read of a line that failed.
ReadFailedStep ==
  /\ Len(calls') = Len(calls) + 1
  /\ IsRead(calls'[Len(calls')])
  /\ ~calls'[Len(calls')].ok

\* The lines of the file that could not be read.
Unreadable == {i \in DOMAIN file : ~file[i].ok}

\* C21: a line that cannot be read is not parsed and changes nothing:
\* parse_line is not called, no row is collected, ok, bad and the output
\* stay as they are, and the next line is the one read next; in a completed
\* run such a line has no append and no diagnostic, the counts add up to
\* the rows of the other lines, and every line that parses, after an
\* unreadable one or not, was offered to the database.
C21_UnreadableLineIsSkipped ==
  /\ [][ReadFailedStep =>
          /\ result' = None
          /\ reInit' = reInit
          /\ rows_vec' = rows_vec
          /\ ok' = ok /\ bad' = bad
          /\ out' = out
          /\ buffer' = buffer /\ requests' = requests
          /\ nextLine' = nextLine + 1
          /\ pc' = "Collecting"]_vars
  /\ [](pc = "Done" =>
          /\ \A k \in DOMAIN Attempts : Attempts[k].line \notin Unreadable
          /\ \A k \in DOMAIN Landed : Landed[k].lineNo \notin Unreadable
          /\ Len(SelectSeq(out, LAMBDA d : d.kind = "RowFailed"))
               = Len(SelectSeq(Attempts, LAMBDA c : ~c.ok))
          /\ Reported.ok + Reported.bad
               = Cardinality({i \in DOMAIN file : ParsesOk(i)})
          /\ \A i \in DOMAIN file :
               ParsesOk(i) => \E k \in DOMAIN Attempts : Attempts[k].line = i)

\* The first line of three cannot be read; the two after it are in the
\* database and the run reports ok=2 bad=0 without a diagnostic.
C21_Witness ==
  /\ pc = "Done"
  /\ Len(file) = 3
  /\ Unreadable = {1}
  /\ Len(Landed) = 2
  /\ Landed[1].lineNo = 2
  /\ Reported.ok = 2 /\ Reported.bad = 0
  /\ \A d \in DOMAIN out : out[d].kind # "RowFailed"

=============================================================================
